---- MODULE Spec2Model ----
(***************************************************************************)
(* Model of the motor step-response automation (legacy/1-2.py), of the    *)
(* telemetry readers of the live plotters (src/plotter.py,                 *)
(* src/plotter_pid.py), of the gain sweeps (src/tune_kp.py,                *)
(* src/tune_kd.py), of the performance metrics (calculate_metrics,        *)
(* save_performance_metrics, calculate_performance), and of the plotters'  *)
(* key handler with load_latest_summary of src/data_loader.py.             *)
(*                                                                         *)
(* Numbers: angles are whole degrees, clock readings are whole ticks, and  *)
(* the inputs are chosen so that delta_angle / dt is exact.  Python lists  *)
(* are sequences; the Python index d_index is kept 0-based, so the current *)
(* duty is D_VALUES[d_index + 1].                                          *)
(***************************************************************************)
EXTENDS Integers, Sequences, FiniteSets, TLC

VARIABLES
    state,                  \* legacy/1-2.py STATE: state tag of the experiment
    d_index,                \* index into D_VALUES of the duty under test
    results,                \* duty -> [time, velocity] of the sealed runs
    current_run_time,       \* time stamps of the run in progress
    current_run_vel,        \* velocities of the run in progress
    start_time_current_run, \* clock reading taken on START_MOTOR
    last_angle,             \* estimator: previous angle
    last_time,              \* estimator: previous run-local time
    is_first_point,         \* estimator: no previous sample yet
    commands,               \* every value handed to ser.write, in order
    pc,                     \* "loop" | "finally" | "closed": main-loop position
    clock,                  \* last reading of time.time()
    shaft,                  \* transport: angle of the last Angle line sent
    noise,                  \* transport: unscripted lines delivered so far
    obs,                    \* history: effect of the last line drained
    run_obs,                \* history: first three Angle samples since the reset
    exit_obs,               \* history: what the loop looked like when it exited
    det,                    \* detector harness: the input shape and the verdicts
    plotter,                \* src/plotter.py: its module-level data
    plotter_pid,            \* src/plotter_pid.py: its module-level data
    fed,                    \* history: the reader and the lines of the last read
    sweep,                  \* src/tune_kp.py, src/tune_kd.py: main and its port
    met,                    \* metrics harness: the series and the results
    trail,                  \* history: when each sample of a run was drained
    quiet,                  \* transport: the polls since it fell silent
    disk,                   \* the files written by the plotters' save functions
    loaded                  \* src/data_loader.py: outcome of load_latest_summary

vars == <<state, d_index, results, current_run_time, current_run_vel,
          start_time_current_run, last_angle, last_time, is_first_point,
          commands, pc, clock, shaft, noise, obs, run_obs, exit_obs,
          det, plotter, plotter_pid, fed, sweep, met, trail, quiet, disk,
          loaded>>

\* what the experiment script does not touch
rest == <<det, plotter, plotter_pid, fed, sweep, met, quiet, disk, loaded>>

----------------------------------------------------------------------------
(* Experiment settings, legacy/1-2.py lines 15-20 *)

D_VALUES == <<150, 175, 200, 225, 250>>
STEADY_STATE_THRESHOLD == 2
STEADY_STATE_POINTS == 25
STOP_THRESHOLD == 1
STOP_POINTS == 25

(* Bounds of the exploration *)
MaxGlitch == 1
MaxLines == 3
MaxSeg == 26
MaxDecLines == 2
MaxValues == 2
MaxOdd == 1
MaxSamples == 11
MaxQuiet == 2
MaxPlotLines == 3

----------------------------------------------------------------------------
(* Sequence helpers *)

Abs(x) == IF x < 0 THEN -x ELSE x

Last(s) == s[Len(s)]

\* Python s[-n:] : the last n elements, the whole list when it is shorter
Tail_n(s, n) == IF Len(s) <= n THEN s ELSE SubSeq(s, Len(s) - n + 1, Len(s))

RECURSIVE Sum(_)
Sum(s) == IF s = <<>> THEN 0 ELSE s[1] + Sum(Tail(s))

RECURSIVE SumSq(_)
SumSq(s) == IF s = <<>> THEN 0 ELSE s[1] * s[1] + SumSq(Tail(s))

RECURSIVE SumAbs(_)
SumAbs(s) == IF s = <<>> THEN 0 ELSE Abs(s[1]) + SumAbs(Tail(s))

----------------------------------------------------------------------------
(* Detectors *)

\* np.std(w) < th for a non-empty w, th >= 0, without square roots:
\* std^2 = (n*sum(x^2) - sum(x)^2) / n^2
StdBelow(w, th) ==
    Len(w) * SumSq(w) - Sum(w) * Sum(w) < th * th * Len(w) * Len(w)

\* np.mean(np.abs(w)) < th for a non-empty w
MeanAbsBelow(w, th) == SumAbs(w) < th * Len(w)

\* check_steady_state whose length test is one short
check_steady_state_OneShort(vel) ==
    IF Len(vel) < STEADY_STATE_POINTS - 1
    THEN FALSE
    ELSE StdBelow(Tail_n(vel, STEADY_STATE_POINTS), STEADY_STATE_THRESHOLD)

check_steady_state(vel) ==
    IF Len(vel) < STEADY_STATE_POINTS
    THEN FALSE
    ELSE StdBelow(Tail_n(vel, STEADY_STATE_POINTS), STEADY_STATE_THRESHOLD)

\* check_stopped that averages the signed velocities
check_stopped_NoAbs(vel) ==
    IF Len(vel) < STOP_POINTS
    THEN Len(vel) > 0 /\ Abs(Last(vel)) < STOP_THRESHOLD
    ELSE Sum(Tail_n(vel, STOP_POINTS)) < STOP_THRESHOLD * STOP_POINTS

check_stopped(vel) ==
    IF Len(vel) < STOP_POINTS
    THEN Len(vel) > 0 /\ Abs(Last(vel)) < STOP_THRESHOLD
    ELSE MeanAbsBelow(Tail_n(vel, STOP_POINTS), STOP_THRESHOLD)

----------------------------------------------------------------------------
(* Telemetry lines.  A line is its tag (the text before the first colon)   *)
(* and the comma-separated tokens after it; a token is an integer literal, *)
(* a decimal literal, or text that is no number.  An input item pairs a    *)
(* line with the advance of the clock since the previous reading.          *)

Tok(k, v) == [k |-> k, v |-> v]
Junk == Tok("junk", 0)

FloatOK(tok) == tok.k \in {"int", "float"}   \* float(text) does not raise
IntOK(tok) == tok.k = "int"                  \* int(text) does not raise

Line(tag, fields) == [tag |-> tag, fields |-> fields]
AngleLine(a) == Line("Angle", <<Tok("float", a)>>)
Item(line, tick) == [line |-> line, tick |-> tick]

----------------------------------------------------------------------------
(* process_serial_data, legacy/1-2.py lines 54-83.  The program state is   *)
(* handled as one record m, so that each function of the source is an      *)
(* operator from records to records.                                       *)

NoObs == [kind |-> "none", first |-> FALSE, dt |-> 0, raw |-> 0, delta |-> 0,
          appended |-> 0, angle |-> 0, time |-> 0]

\* The moment a line is drained is the number of commands written before
\* it.  last_at is the moment of the sample held in last_angle / last_time
\* (0: none yet), run_from lists for the velocities of current_run_vel, in
\* order, the moments of the two samples each was computed from, n
\* successive velocities with the same two moments as one entry, and
\* sealed_from keeps run_from of each sealed run.
NoTrail == [last_at |-> 0, run_from |-> <<>>, sealed_from |-> <<>>]

Stamp(from, older, newer) ==
    IF from # <<>> /\ Last(from).older = older /\ Last(from).newer = newer
    THEN [from EXCEPT ![Len(from)].n = @ + 1]
    ELSE Append(from, [older |-> older, newer |-> newer, n |-> 1])

\* the number of velocities from lists
Stamped(from) == Sum([i \in 1..Len(from) |-> from[i].n])

\* lines 62-63: the line carries "Angle:" and float() accepts what follows
AngleDecodes(line) ==
    /\ line.tag = "Angle"
    /\ Len(line.fields) = 1
    /\ FloatOK(line.fields[1])

\* line 63: what float(raw_data.split(":")[1]) raises
AngleParse(line) == IF AngleDecodes(line) THEN "none" ELSE "ValueError"

\* line 81: except (ValueError, IndexError)
Catches(exc) == exc \in {"ValueError", "IndexError"}

\* an unwrap that forgets the backward crossing
Unwrap_ForwardOnly(delta_angle) ==
    IF delta_angle > 180 THEN delta_angle - 360 ELSE delta_angle

\* lines 70-71: shortest-path unwrap of the raw difference
Unwrap(delta_angle) ==
    IF delta_angle > 180 THEN delta_angle - 360
    ELSE IF delta_angle < -180 THEN delta_angle + 360
    ELSE delta_angle

\* a reader that differences the first sample of a run too
Emits_EvenFirst(first, dt) == dt > 0

\* lines 67 and 73: a velocity is appended for this sample
Emits(first, dt) == ~first /\ dt > 0

\* a reader that keeps the stored sample when it emits nothing
StoresLast_OnlyEmitted(first, dt) == first \/ dt > 0

\* lines 78-80: the stored sample is replaced by this one
StoresLast(first, dt) == TRUE

\* line 74
Velocity(delta_angle, dt) == delta_angle \div dt

\* one turn of the while loop, lines 60-82
ProcessLine(m, it) ==
    IF it.line.tag # "Angle"
    THEN [m EXCEPT !.obs = [NoObs EXCEPT !.kind = "ignored"]]
    ELSE IF AngleParse(it.line) # "none"
    THEN IF Catches(AngleParse(it.line))
         THEN [m EXCEPT !.obs = [NoObs EXCEPT !.kind = "error"]]
         ELSE [m EXCEPT !.obs = [NoObs EXCEPT !.kind = "escaped"]]
    ELSE
      LET current_angle == it.line.fields[1].v
          now == m.clock + it.tick
          current_time == now - m.start_time_current_run
          first == m.is_first_point
          dt == current_time - m.last_time
          raw == current_angle - m.last_angle
          delta_angle == Unwrap(raw)
          emit == Emits(first, dt)
          keep == StoresLast(first, dt)
          seen == [kind |-> "angle", first |-> first,
                   dt |-> IF first THEN 0 ELSE dt,
                   raw |-> IF first THEN 0 ELSE raw,
                   delta |-> IF first THEN 0 ELSE delta_angle,
                   appended |-> IF emit THEN 1 ELSE 0,
                   angle |-> current_angle, time |-> current_time]
      IN [m EXCEPT
            !.clock = now,
            !.shaft = current_angle,
            !.current_run_time = IF emit THEN Append(@, current_time) ELSE @,
            !.current_run_vel =
                IF emit THEN Append(@, Velocity(delta_angle, dt)) ELSE @,
            !.last_angle = IF keep THEN current_angle ELSE @,
            !.last_time = IF keep THEN current_time ELSE @,
            !.is_first_point = FALSE,
            !.obs = seen,
            !.run_obs = IF Len(@) < 3 THEN Append(@, seen) ELSE @,
            !.trail.run_from =
                IF emit THEN Stamp(@, m.trail.last_at, Len(m.commands))
                ELSE @,
            !.trail.last_at = IF keep THEN Len(m.commands) ELSE @]

\* the while loop of lines 59-83; each line's result is bound as a value
\* before the next line is processed; an exception that line 81 does not
\* catch ends the loop
RECURSIVE DrainFrom(_, _, _)
DrainFrom(m, batch, i) ==
    IF i > Len(batch) \/ m.obs.kind = "escaped" THEN m
    ELSE CHOOSE out \in { DrainFrom(after, batch, j) :
                             after \in {ProcessLine(m, batch[i])},
                             j \in {i + 1} } : TRUE

process_serial_data(m, batch) == DrainFrom(m, batch, 1)

----------------------------------------------------------------------------
(* manage_experiment, legacy/1-2.py lines 106-153 *)

send_d_to_arduino(m, d_value) == [m EXCEPT !.commands = Append(@, d_value)]

\* StartMotor whose bound is one short: the last duty is never run
StartMotor_SkipsLast(m) ==
    IF m.d_index < Len(D_VALUES) - 1
    THEN [send_d_to_arduino(m, D_VALUES[m.d_index + 1]) EXCEPT
            !.current_run_time = <<>>,
            !.current_run_vel = <<>>,
            !.is_first_point = TRUE,
            !.start_time_current_run = m.clock,
            !.run_obs = <<>>,
            !.trail.run_from = <<>>,
            !.state = "WAIT_STEADY"]
    ELSE [m EXCEPT !.state = "FINISHED"]

\* StartMotor that empties the lists in place, with results holding the
\* list objects themselves instead of copies
StartMotor_ClearsSealed(m) ==
    IF m.d_index < Len(D_VALUES)
    THEN [send_d_to_arduino(m, D_VALUES[m.d_index + 1]) EXCEPT
            !.results = [k \in DOMAIN m.results |->
                           IF m.d_index > 0 /\ k = D_VALUES[m.d_index]
                           THEN [time |-> <<>>, velocity |-> <<>>]
                           ELSE m.results[k]],
            !.current_run_time = <<>>,
            !.current_run_vel = <<>>,
            !.is_first_point = TRUE,
            !.start_time_current_run = m.clock,
            !.run_obs = <<>>,
            !.trail.run_from = <<>>,
            !.state = "WAIT_STEADY"]
    ELSE [m EXCEPT !.state = "FINISHED"]

\* StartMotor that leaves the buffers of the last run in place
StartMotor_KeepsBuffers(m) ==
    IF m.d_index < Len(D_VALUES)
    THEN [send_d_to_arduino(m, D_VALUES[m.d_index + 1]) EXCEPT
            !.is_first_point = TRUE,
            !.start_time_current_run = m.clock,
            !.run_obs = <<>>,
            !.state = "WAIT_STEADY"]
    ELSE [m EXCEPT !.state = "FINISHED"]

\* lines 116-128
StartMotor(m) ==
    IF m.d_index < Len(D_VALUES)
    THEN [send_d_to_arduino(m, D_VALUES[m.d_index + 1]) EXCEPT
            !.current_run_time = <<>>,
            !.current_run_vel = <<>>,
            !.is_first_point = TRUE,
            !.start_time_current_run = m.clock,
            !.run_obs = <<>>,
            !.trail.run_from = <<>>,
            !.state = "WAIT_STEADY"]
    ELSE [m EXCEPT !.state = "FINISHED"]

\* WaitSteady that changes state without stopping the motor
WaitSteady_NoZero(m) ==
    IF check_steady_state(m.current_run_vel)
    THEN [m EXCEPT !.state = "WAIT_STOP"]
    ELSE m

\* WaitSteady that gives up on a run that has produced no sample
WaitSteady_GivesUp(m) ==
    IF check_steady_state(m.current_run_vel) \/ m.current_run_vel = <<>>
    THEN [send_d_to_arduino(m, 0) EXCEPT !.state = "WAIT_STOP"]
    ELSE m

\* WaitSteady that starts the stop phase on empty buffers
WaitSteady_ClearsRun(m) ==
    IF check_steady_state(m.current_run_vel)
    THEN [send_d_to_arduino(m, 0) EXCEPT !.current_run_time = <<>>,
                                         !.current_run_vel = <<>>,
                                         !.trail.run_from = <<>>,
                                         !.state = "WAIT_STOP"]
    ELSE m

\* lines 130-134
WaitSteady(m) ==
    IF check_steady_state(m.current_run_vel)
    THEN [send_d_to_arduino(m, 0) EXCEPT !.state = "WAIT_STOP"]
    ELSE m

\* Seal that stores every run under the first duty
Seal_FirstKey(m) ==
    LET d == D_VALUES[1]
        run == [time |-> m.current_run_time, velocity |-> m.current_run_vel]
    IN [k \in DOMAIN m.results \cup {d} |->
            IF k = d THEN run ELSE m.results[k]]

\* lines 141-144: results[D_VALUES[d_index]] = copies of the run buffers
Seal(m) ==
    LET d == D_VALUES[m.d_index + 1]
        run == [time |-> m.current_run_time, velocity |-> m.current_run_vel]
    IN [k \in DOMAIN m.results \cup {d} |->
            IF k = d THEN run ELSE m.results[k]]

\* WaitStop that advances the index by two
WaitStop_SkipsOne(m) ==
    IF check_stopped(m.current_run_vel)
    THEN [m EXCEPT !.results = Seal(m),
                   !.trail.sealed_from =
                       [k \in DOMAIN @ \cup {D_VALUES[m.d_index + 1]} |->
                           IF k = D_VALUES[m.d_index + 1]
                           THEN m.trail.run_from ELSE @[k]],
                   !.d_index = @ + 2,
                   !.state = "START_MOTOR"]
    ELSE m

\* lines 136-147
WaitStop(m) ==
    IF check_stopped(m.current_run_vel)
    THEN [m EXCEPT !.results = Seal(m),
                   !.trail.sealed_from =
                       [k \in DOMAIN @ \cup {D_VALUES[m.d_index + 1]} |->
                           IF k = D_VALUES[m.d_index + 1]
                           THEN m.trail.run_from ELSE @[k]],
                   !.d_index = @ + 1,
                   !.state = "START_MOTOR"]
    ELSE m

\* a chain of plain ifs: the branch of the state just entered runs in
\* the same call
Transition_FallsThrough(m) ==
    LET a == IF m.state = "IDLE" THEN [m EXCEPT !.state = "START_MOTOR"] ELSE m
        b == IF a.state = "START_MOTOR" /\ (m.state = "IDLE" \/ m.state = "START_MOTOR")
             THEN StartMotor(a) ELSE a
        c == IF b.state = "WAIT_STEADY" THEN WaitSteady(b) ELSE b
        d == IF c.state = "WAIT_STOP" THEN WaitStop(c) ELSE c
    IN IF d.state = "FINISHED" THEN [d EXCEPT !.state = "PLOT_CLOSED"] ELSE d

\* lines 113-153, after the drain of line 110
Transition(m) ==
    CASE m.state = "IDLE" -> [m EXCEPT !.state = "START_MOTOR"]
      [] m.state = "START_MOTOR" -> StartMotor(m)
      [] m.state = "WAIT_STEADY" -> WaitSteady(m)
      [] m.state = "WAIT_STOP" -> WaitStop(m)
      [] m.state = "FINISHED" -> [m EXCEPT !.state = "PLOT_CLOSED"]
      [] OTHER -> m

\* line 110, then lines 113-153 on the drained state
manage_experiment(m, batch) ==
    CHOOSE out \in { IF drained.obs.kind = "escaped"
                     THEN drained ELSE Transition(drained) :
                        drained \in {process_serial_data(m, batch)} } : TRUE

----------------------------------------------------------------------------
(* The program state as a record, and back *)

Mach == [state |-> state, d_index |-> d_index, results |-> results,
         current_run_time |-> current_run_time,
         current_run_vel |-> current_run_vel,
         start_time_current_run |-> start_time_current_run,
         last_angle |-> last_angle, last_time |-> last_time,
         is_first_point |-> is_first_point, commands |-> commands,
         clock |-> clock, shaft |-> shaft, obs |-> obs, run_obs |-> run_obs,
         trail |-> trail]

Becomes(m) ==
    /\ state' = m.state
    /\ d_index' = m.d_index
    /\ results' = m.results
    /\ current_run_time' = m.current_run_time
    /\ current_run_vel' = m.current_run_vel
    /\ start_time_current_run' = m.start_time_current_run
    /\ last_angle' = m.last_angle
    /\ last_time' = m.last_time
    /\ is_first_point' = m.is_first_point
    /\ commands' = m.commands
    /\ clock' = m.clock
    /\ shaft' = m.shaft
    /\ obs' = m.obs
    /\ run_obs' = m.run_obs
    /\ trail' = m.trail

NoExit == [left |-> FALSE, n_cmds |-> 0, results |-> <<>>]

\* n counts the polls since the transport fell silent; at is the machine
\* as the first of them found it
NoQuiet == [n |-> 0, at |-> [state |-> "IDLE", commands |-> <<>>,
                             results |-> <<>>, stopped |-> FALSE]]

NoDet == [k1 |-> 0, v1 |-> 0, k2 |-> 0, v2 |-> 0,
          done |-> FALSE, steady |-> FALSE, stopped |-> FALSE]

NoFed == [reader |-> "none", batch |-> <<>>, n |-> 0]

----------------------------------------------------------------------------
(* update_plot of the live plotters, src/plotter.py lines 225-324 and      *)
(* src/plotter_pid.py lines 236-309.  The module-level lists of each       *)
(* plotter are one record; the drawing calls at the end of update_plot     *)
(* read the lists and change none of them.                                 *)

NoTask == [seen |-> FALSE, name |-> <<>>]    \* task_name = None

\* src/plotter.py lines 39-45
PlotterInit ==
    [time_data |-> <<>>, velocity_data |-> <<>>, duty_data |-> <<>>,
     tau_labels |-> <<>>, K_labels |-> <<>>, paused |-> FALSE,
     task_name |-> NoTask, escaped |-> FALSE]

\* src/plotter_pid.py lines 39-45
PlotterPidInit ==
    [time_data |-> <<>>, position_data |-> <<>>, reference_data |-> <<>>,
     error_data |-> <<>>, control_data |-> <<>>, paused |-> FALSE,
     task_name |-> NoTask, escaped |-> FALSE]

\* the conversions of one line in source order: int() at the positions
\* ints, float() elsewhere; "none" when every one returns
Conversions(values, ints) ==
    IF \A i \in 1..Len(values) :
          IF i \in ints THEN IntOK(values[i]) ELSE FloatOK(values[i])
    THEN "none" ELSE "ValueError"

\* the except clause of update_plot: the line is dropped, or the
\* exception leaves update_plot
Raised(p, exc) == IF Catches(exc) THEN p ELSE [p EXCEPT !.escaped = TRUE]

\* a Data branch that appends each value as soon as it is converted
PlotterData_AppendsAsConverted(p, values) ==
    IF Len(values) # 3 THEN p
    ELSE IF ~IntOK(values[1]) THEN Raised(p, "ValueError")
    ELSE IF ~FloatOK(values[2])
    THEN Raised([p EXCEPT !.duty_data = Append(@, values[1].v * 10)],
                "ValueError")
    ELSE IF ~FloatOK(values[3])
    THEN Raised([p EXCEPT !.duty_data = Append(@, values[1].v * 10),
                          !.time_data = Append(@, values[2].v)],
                "ValueError")
    ELSE [p EXCEPT !.time_data = Append(@, values[2].v),
                   !.velocity_data = Append(@, values[3].v),
                   !.duty_data = Append(@, values[1].v * 10)]

\* src/plotter.py lines 249-258: "Data:Duty,Time,Velocity"
PlotterData(p, values) ==
    IF Len(values) # 3 THEN p
    ELSE IF Conversions(values, {1}) # "none"
    THEN Raised(p, Conversions(values, {1}))
    ELSE [p EXCEPT !.time_data = Append(@, values[2].v),
                   !.velocity_data = Append(@, values[3].v),
                   !.duty_data = Append(@, values[1].v * 10)]

\* src/plotter.py lines 261-278: "Tau:Duty,Time,TauValue"
PlotterTau(p, values) ==
    IF Len(values) # 3 THEN p
    ELSE IF Conversions(values, {1}) # "none"
    THEN Raised(p, Conversions(values, {1}))
    ELSE [p EXCEPT !.tau_labels =
            Append(@, [time |-> values[2].v, value |-> values[3].v,
                       duty |-> values[1].v])]

\* src/plotter.py lines 282-300: "K:Duty,Time,K_value,SteadyVelocity"
PlotterK(p, values) ==
    IF Len(values) # 4 THEN p
    ELSE IF Conversions(values, {1}) # "none"
    THEN Raised(p, Conversions(values, {1}))
    ELSE [p EXCEPT !.K_labels =
            Append(@, [time |-> values[2].v, value |-> values[3].v,
                       duty |-> values[1].v])]

\* src/plotter.py lines 238-308: one turn of the while loop
PlotterLine(p, line) ==
    CASE line.tag = "TASK" ->
            [p EXCEPT !.task_name = [seen |-> TRUE, name |-> line.fields]]
      [] line.tag = "Data" -> PlotterData(p, line.fields)
      [] line.tag = "Tau" -> PlotterTau(p, line.fields)
      [] line.tag = "K" -> PlotterK(p, line.fields)
      [] OTHER -> p

RECURSIVE PlotterFrom(_, _, _)
PlotterFrom(p, batch, i) ==
    IF i > Len(batch) \/ p.escaped THEN p
    ELSE CHOOSE out \in { PlotterFrom(q, batch, j) :
                             q \in {PlotterLine(p, batch[i])},
                             j \in {i + 1} } : TRUE

\* an update_plot that processes the lines while paused
update_plot_IgnoresPause(p, batch) == PlotterFrom(p, batch, 1)

\* src/plotter.py lines 225-324: a paused plotter reads and discards
update_plot(p, batch) ==
    IF p.paused THEN p ELSE PlotterFrom(p, batch, 1)

\* src/plotter_pid.py lines 260-273:
\* "Data:Time,Position,Reference,Error,ControlSignal"
PlotterPidData(p, values) ==
    IF Len(values) # 5 THEN p
    ELSE IF Conversions(values, {}) # "none"
    THEN Raised(p, Conversions(values, {}))
    ELSE [p EXCEPT !.time_data = Append(@, values[1].v),
                   !.position_data = Append(@, values[2].v),
                   !.reference_data = Append(@, values[3].v),
                   !.error_data = Append(@, values[4].v),
                   !.control_data = Append(@, values[5].v)]

\* src/plotter_pid.py lines 250-280: one turn of the while loop
PlotterPidLine(p, line) ==
    CASE line.tag = "TASK" ->
            [p EXCEPT !.task_name = [seen |-> TRUE, name |-> line.fields]]
      [] line.tag = "Data" -> PlotterPidData(p, line.fields)
      [] OTHER -> p

RECURSIVE PlotterPidFrom(_, _, _)
PlotterPidFrom(p, batch, i) ==
    IF i > Len(batch) \/ p.escaped THEN p
    ELSE CHOOSE out \in { PlotterPidFrom(q, batch, j) :
                             q \in {PlotterPidLine(p, batch[i])},
                             j \in {i + 1} } : TRUE

\* src/plotter_pid.py lines 236-309
update_plot_pid(p, batch) ==
    IF p.paused THEN p ELSE PlotterPidFrom(p, batch, 1)

----------------------------------------------------------------------------
(* calculate_metrics, src/tune_kp.py lines 19-49 and src/tune_kd.py lines  *)
(* 26-55 (the same text).  Times and positions are whole numbers; a        *)
(* result that Python computes by a division is kept as the exact fraction *)
(* num/den, and None is the value with some = FALSE.                       *)

TARGET_POS == 200
FIXED_KP == 50
KP_VALUES == <<1, 5, 10, 30, 50, 80, 100, 150, 200, 300, 500, 800, 1000>>
KD_VALUES == <<0, 1, 3, 5, 8, 10, 15, 20, 25, 30, 40, 50>>

None == [some |-> FALSE, num |-> 0, den |-> 1]
Rat(num, den) == [some |-> TRUE, num |-> num, den |-> den]

\* np.max(y)
MaxOf(y) == CHOOSE v \in {y[i] : i \in 1..Len(y)} : \A i \in 1..Len(y) : y[i] <= v

\* np.where(y >= target * tenths/10)[0][0], 1-based; 0 when IndexError
FirstAtLeast(y, tenths, target) ==
    LET hit == {i \in 1..Len(y) : 10 * y[i] >= tenths * target}
    IN IF hit = {} THEN 0 ELSE CHOOSE i \in hit : \A j \in hit : i <= j

\* lines 28-35: 10% -> 90%, on the times shifted by t[0]
RiseTime(t, y, target) ==
    LET idx_low == FirstAtLeast(y, 1, target)
        idx_high == FirstAtLeast(y, 9, target)
    IN IF idx_low = 0 \/ idx_high = 0 THEN None
       ELSE Rat((t[idx_high] - t[1]) - (t[idx_low] - t[1]), 1)

\* lines 37-41
Overshoot(y, target) ==
    LET peak_val == MaxOf(y)
    IN IF peak_val > target
       THEN Rat((peak_val - target) * 100, target) ELSE Rat(0, 1)

\* lines 43-47: y[int(num_samples*0.9):] are the samples from the 0-based
\* index floor(0.9 n) on
SteadyStateError(y, target) ==
    LET num_samples == Len(y)
        final == SubSeq(y, (num_samples * 9) \div 10 + 1, num_samples)
    IN Rat(target * Len(final) - Sum(final), Len(final))

\* lines 19-49
calculate_metrics(time_data, pos_data, target) ==
    IF Len(pos_data) < 10
    THEN [rt |-> None, ov |-> None, sse |-> None]
    ELSE [rt |-> RiseTime(time_data, pos_data, target),
          ov |-> Overshoot(pos_data, target),
          sse |-> SteadyStateError(pos_data, target)]

\* src/plotter_pid.py line 160: the truth value of a float or None
Truthy(x) == x.some /\ x.num # 0

\* src/plotter_pid.py lines 138-145: the scan runs over the 0-based indices
\* len-1 down to 1; here they are the 1-based i = n down to 2
SettlingTimePid(time_vals, pos_vals, reference) ==
    LET n == Len(pos_vals)
        out == {i \in 2..n : 100 * Abs(pos_vals[i] - reference) > 2 * reference}
    IN IF out = {} THEN None
       ELSE LET i == CHOOSE k \in out : \A j \in out : j <= k
            IN IF i < Len(time_vals) THEN Rat(time_vals[i + 1], 1) ELSE None

\* src/plotter_pid.py lines 147-160
RiseTimePid(time_vals, pos_vals, reference) ==
    LET idx_end == FirstAtLeast(pos_vals, 9, reference)
        upto == IF idx_end = 0 THEN Len(pos_vals) ELSE idx_end
        idx_start == FirstAtLeast(SubSeq(pos_vals, 1, upto), 1, reference)
        rise_start == IF idx_start = 0 THEN None ELSE Rat(time_vals[idx_start], 1)
        rise_end == IF idx_end = 0 THEN None ELSE Rat(time_vals[idx_end], 1)
    IN IF Truthy(rise_start) /\ Truthy(rise_end)
       THEN Rat(rise_end.num - rise_start.num, 1) ELSE None

\* src/plotter_pid.py lines 125-174: the metrics that are saved; nothing
\* is computed below 10 samples
save_performance_metrics(time_vals, pos_vals, reference) ==
    IF Len(pos_vals) < 10
    THEN [rt |-> None, ov |-> None, st |-> None, sse |-> None]
    ELSE [rt |-> RiseTimePid(time_vals, pos_vals, reference),
          ov |-> IF reference > 0
                 THEN Rat((MaxOf(pos_vals) - reference) * 100, reference)
                 ELSE Rat(0, 1),
          st |-> SettlingTimePid(time_vals, pos_vals, reference),
          sse |-> Rat(reference - Last(pos_vals), 1)]

\* src/p2-1_pid_simulation.py lines 149-156: the first sample inside the
\* band, or the last time when none is
SettlingTimeSim(t, position, reference) ==
    LET settled == {i \in 1..Len(position) :
                      100 * Abs(position[i] - reference) < 2 * reference}
    IN IF settled = {} THEN Rat(Last(t), 1)
       ELSE Rat(t[CHOOSE i \in settled : \A j \in settled : i <= j], 1)

\* src/p2-1_pid_simulation.py lines 144-178 (np.nan is None here)
calculate_performance(t, position, reference) ==
    LET idx_10 == FirstAtLeast(position, 1, reference)
        idx_90 == FirstAtLeast(position, 9, reference)
    IN [rt |-> IF idx_10 > 0 /\ idx_90 > 0
               THEN Rat(t[idx_90] - t[idx_10], 1) ELSE None,
        ov |-> Rat((MaxOf(position) - reference) * 100, reference),
        st |-> SettlingTimeSim(t, position, reference),
        sse |-> Rat(reference - Last(position), 1)]

\* exc is the exception the call raised, "none" when it returned
NoMet == [fn |-> "none", t |-> <<>>, y |-> <<>>, target |-> 0,
          rt |-> None, ov |-> None, st |-> None, sse |-> None,
          short |-> FALSE, exc |-> "none"]

----------------------------------------------------------------------------
(* The key handler of the live plotters (on_key, src/plotter.py lines      *)
(* 169-221 and src/plotter_pid.py lines 187-232), the files it writes, and *)
(* load_latest_summary of src/data_loader.py (lines 24-91).  disk holds    *)
(* one record per run of the save sequence of each plotter, and the        *)
(* summary_*.json files of the task directory in the order of their        *)
(* modification times.  A summary is the set of its keys and the two       *)
(* averages (None is JSON null).                                           *)

NoDisk == [plotter |-> <<>>, plotter_pid |-> <<>>, summaries |-> <<>>]

NoLoad == [called |-> FALSE, verbose |-> FALSE, exc |-> "none",
           data |-> [keys |-> {}, tau_average |-> None, K_average |-> None],
           tau |-> None, K |-> None]

\* sum(values) / len(values) of the value column of the labels
Average(labels) ==
    Rat(Sum([i \in 1..Len(labels) |-> labels[i].value]), Len(labels))

\* src/plotter.py lines 145-167: both averages start as None and are set
\* only for a list that is not empty
save_calculated_values(d, tau_vals, K_vals) ==
    [d EXCEPT !.summaries =
        Append(@, [keys |-> {"tau_average", "K_average"},
                   tau_average |-> IF tau_vals # <<>>
                                   THEN Average(tau_vals) ELSE None,
                   K_average |-> IF K_vals # <<>>
                                 THEN Average(K_vals) ELSE None])]

\* src/plotter.py lines 196-211: the save sequence of 'p'
SavePlotter(p, d) ==
    LET calculated == p.tau_labels # <<>> \/ p.K_labels # <<>>
        kept == [d EXCEPT !.plotter =
                    Append(@, [plot |-> TRUE, raw |-> p.time_data # <<>>,
                               calculated |-> calculated])]
    IN IF calculated
       THEN save_calculated_values(kept, p.tau_labels, p.K_labels)
       ELSE kept

\* src/plotter.py lines 169-221
on_key(p, d, key) ==
    CASE key = "c" ->
            [p |-> [p EXCEPT !.time_data = <<>>, !.velocity_data = <<>>,
                             !.duty_data = <<>>, !.tau_labels = <<>>,
                             !.K_labels = <<>>],
             d |-> d]
      [] key = "p" /\ ~p.paused ->
            [p |-> [p EXCEPT !.paused = TRUE], d |-> SavePlotter(p, d)]
      [] OTHER -> [p |-> p, d |-> d]

\* src/plotter_pid.py lines 187-232: the metrics file is written with the
\* raw data, and only when there are at least ten samples (line 125)
on_key_pid(p, d, key) ==
    CASE key = "c" ->
            [p |-> [p EXCEPT !.time_data = <<>>, !.position_data = <<>>,
                             !.reference_data = <<>>, !.error_data = <<>>,
                             !.control_data = <<>>],
             d |-> d]
      [] key = "p" /\ ~p.paused ->
            [p |-> [p EXCEPT !.paused = TRUE],
             d |-> [d EXCEPT !.plotter_pid =
                      Append(@, [plot |-> TRUE, raw |-> p.time_data # <<>>,
                                 metrics |-> Len(p.position_data) >= 10])]]
      [] OTHER -> [p |-> p, d |-> d]

\* src/data_loader.py lines 24-91
load_latest_summary(d, verbose) ==
    IF d.summaries = <<>>
    THEN [NoLoad EXCEPT !.called = TRUE, !.verbose = verbose,
                        !.exc = "FileNotFoundError"]
    ELSE LET data == Last(d.summaries)
             read == [NoLoad EXCEPT !.called = TRUE, !.verbose = verbose,
                                    !.data = data]
         IN IF "tau_average" \notin data.keys \/ "K_average" \notin data.keys
            THEN [read EXCEPT !.exc = "ValueError"]
            ELSE IF verbose /\ (~data.tau_average.some \/ ~data.K_average.some)
            THEN [read EXCEPT !.exc = "TypeError"]    \* lines 85-86
            ELSE [read EXCEPT !.tau = data.tau_average,
                              !.K = data.K_average]

----------------------------------------------------------------------------
(* The gain sweeps, main of src/tune_kp.py (lines 51-124) and of           *)
(* src/tune_kd.py (lines 57-129): the same loop over KP_VALUES with        *)
(* G:kp,0,0 and over KD_VALUES with G:FIXED_KP,0,kd.  The locals of main   *)
(* and the port are one record s; s.script tells the two scripts apart.    *)

Cmd(op, a, b, c) == [op |-> op, a |-> a, b |-> b, c |-> c]
Stop == Cmd("S", 0, 0, 0)              \* b"S\n"
Zero == Cmd("Z", 0, 0, 0)              \* b"Z\n"
MoveTo(v) == Cmd("R", v, 0, 0)         \* f"R:{v}\n"

\* tune_kp.py line 75, tune_kd.py line 81
SetGains(script, v) ==
    IF script = "kp" THEN Cmd("G", v, 0, 0) ELSE Cmd("G", FIXED_KP, 0, v)

NoSweep ==
    [script |-> "none", values |-> <<>>, i |-> 0, results |-> <<>>,
     all_responses |-> <<>>, t_data |-> <<>>, p_data |-> <<>>,
     commands |-> <<>>, inbuf |-> <<>>, pc |-> "off", exc |-> "none",
     plotted |-> <<>>, clears |-> 0, cleared_at |-> <<>>, seen |-> <<>>,
     read_sent |-> <<>>, ended |-> 0, odd |-> 0]

\* ser.write
Write(s, cmd) == [s EXCEPT !.commands = Append(@, cmd)]

\* ser.reset_input_buffer: the waiting lines are dropped
ResetInputBuffer(s) ==
    [s EXCEPT !.inbuf = <<>>,
              !.clears = @ + 1,
              !.cleared_at = Append(@, Len(s.commands))]

\* a step that starts the move before it clears the input buffer
BeginValue_ClearsLate(s) ==
    LET v == s.values[s.i + 1]
        set == Write(Write(Write(s, Stop), Zero), SetGains(s.script, v))
        started == ResetInputBuffer(Write(set, MoveTo(TARGET_POS)))
    IN [started EXCEPT !.t_data = <<>>, !.p_data = <<>>, !.seen = <<>>,
                       !.read_sent = <<>>, !.pc = "window"]

\* tune_kp.py lines 69-86: reset, set the gain, clear, start the step
BeginValue(s) ==
    LET v == s.values[s.i + 1]
        set == Write(Write(Write(s, Stop), Zero), SetGains(s.script, v))
        started == Write(ResetInputBuffer(set), MoveTo(TARGET_POS))
    IN [started EXCEPT !.t_data = <<>>, !.p_data = <<>>, !.seen = <<>>,
                       !.read_sent = <<>>, !.pc = "window"]

\* tune_kp.py lines 90-97: one line of the collection loop.  float(parts[0])
\* is appended before parts[1] is looked at, and the bare except drops
\* whatever is raised
SweepLine(s, item) ==
    LET parts == item.line.fields
        read == [s EXCEPT !.seen = Append(@, item.line)]
    IN IF item.line.tag # "Data" THEN read
       ELSE IF Len(parts) < 1 \/ ~FloatOK(parts[1]) THEN read
       ELSE LET timed == [read EXCEPT !.t_data = Append(@, parts[1].v),
                                      !.read_sent = Append(@, item.sent)]
            IN IF Len(parts) < 2 \/ ~FloatOK(parts[2]) THEN timed
               ELSE [timed EXCEPT !.p_data = Append(@, parts[2].v)]

RECURSIVE SweepFrom(_, _, _)
SweepFrom(s, batch, i) ==
    IF i > Len(batch) THEN s
    ELSE CHOOSE out \in { SweepFrom(after, batch, j) :
                             after \in {SweepLine(s, batch[i])},
                             j \in {i + 1} } : TRUE

\* tune_kp.py lines 88-97 while lines wait: every waiting line is read
Collect(s) == [SweepFrom(s, s.inbuf, 1) EXCEPT !.inbuf = <<>>]

\* tune_kp.py lines 101-103: the format f"{ov:.1f}" of None raises
Report(m) == IF m.ov.some THEN "none" ELSE "TypeError"

\* tune_kp.py lines 105-112
Record(s, m) ==
    LET v == s.values[s.i + 1]
        kept == IF s.t_data = <<>> THEN s.all_responses
                ELSE [k \in DOMAIN s.all_responses \cup {v} |->
                        IF k = v THEN [t |-> s.t_data, p |-> s.p_data]
                        ELSE s.all_responses[k]]
    IN [s EXCEPT !.results = Append(@, [gain |-> v, RiseTime |-> m.rt,
                                        Overshoot |-> m.ov, SSE |-> m.sse]),
                 !.all_responses = kept]

\* tune_kp.py lines 100-116, when the test window is over
EndWindow(s) ==
    LET m == calculate_metrics(s.t_data, s.p_data, TARGET_POS)
        over == [s EXCEPT !.ended = @ + 1]
    IN IF Report(m) # "none"
       THEN [over EXCEPT !.pc = "raised", !.exc = Report(m)]
       ELSE [Write(Record(over, m), MoveTo(0)) EXCEPT !.pc = "settle"]

\* a sweep that closes the port without the final stop
Finish_NoStop(s) == [s EXCEPT !.pc = "returned", !.plotted = s.results]

\* tune_kp.py lines 118-169: the final stop, close, and the plots
Finish(s) == [Write(s, Stop) EXCEPT !.pc = "returned", !.plotted = s.results]

\* lines 23-31, 49-52, and line 171: the first zero is written before the loop
Init ==
    /\ state = "IDLE"
    /\ d_index = 0
    /\ results = <<>>
    /\ current_run_time = <<>>
    /\ current_run_vel = <<>>
    /\ start_time_current_run = 0
    /\ last_angle = 0
    /\ last_time = 0
    /\ is_first_point = TRUE
    /\ commands = <<0>>
    /\ pc = "loop"
    /\ clock = 0
    /\ shaft = 0
    /\ noise = 0
    /\ obs = NoObs
    /\ run_obs = <<>>
    /\ exit_obs = NoExit
    /\ trail = NoTrail
    /\ quiet = NoQuiet
    /\ disk = NoDisk
    /\ loaded = NoLoad
    /\ det = NoDet
    /\ plotter = PlotterInit
    /\ plotter_pid = PlotterPidInit
    /\ fed = NoFed
    /\ sweep = NoSweep
    /\ met = NoMet

----------------------------------------------------------------------------
(* The transport (ser, legacy/1-2.py lines 35 and 59-61) as a scripted     *)
(* device: while the last command is a duty it turns a quarter turn per    *)
(* tick, after a zero it stands still, and it reports in bursts of         *)
(* STEADY_STATE_POINTS lines.  Up to MaxGlitch lines of a behaviour are    *)
(* off the script.                                                         *)

MotorOn == Last(commands) # 0

ScriptAngle(from, i) == IF MotorOn THEN (from + 90 * i) % 360 ELSE from

ScriptBurst ==
    [i \in 1..STEADY_STATE_POINTS |-> Item(AngleLine(ScriptAngle(shaft, i)), 1)]

GlitchItems ==
    { Item(Line("Angle", <<Junk>>), 0),          \* "Angle:abc"
      Item(AngleLine(shaft), 0),                 \* same clock reading twice
      Item(AngleLine(shaft), -1),                \* the clock stepped back
      Item(AngleLine((shaft + 180) % 360), 1) }  \* a jump of the reading

----------------------------------------------------------------------------
(* The main loop, legacy/1-2.py lines 174-181 *)

Running == pc = "loop" /\ state # "PLOT_CLOSED"

Leaves(m) ==
    /\ pc' = "finally"
    /\ exit_obs' = [left |-> TRUE, n_cmds |-> Len(m.commands),
                    results |-> m.results]

\* line 176 returns and line 177 sleeps: one poll; an exception that
\* escapes the drain leaves the loop instead
Poll(batch) ==
    /\ Running
    /\ \E after \in {manage_experiment(Mach, batch)} :
          /\ Becomes(after)
          /\ IF after.obs.kind = "escaped"
             THEN Leaves(after)
             ELSE UNCHANGED <<pc, exit_obs>>

PollScript ==
    /\ \E batch \in {ScriptBurst} : Poll(batch)
    /\ UNCHANGED <<noise, rest>>

PollEmpty == Poll(<<>>) /\ UNCHANGED <<noise, rest>>

PollGlitch ==
    /\ noise < MaxGlitch
    /\ \E it \in GlitchItems : Poll(<<it>>)
    /\ noise' = noise + 1
    /\ UNCHANGED rest

\* the drain raises out of line 110 (the port fails, or Ctrl+C while
\* reading) after the lines read so far were processed: no transition
DrainRaises ==
    /\ Running
    /\ \E batch \in {ScriptBurst} :
          \E after \in {process_serial_data(Mach, batch)} : Becomes(after)
    /\ Leaves(Mach)
    /\ UNCHANGED <<noise, rest>>

\* Ctrl+C during the settle delay of line 147: the run is sealed already
SettleCutShort ==
    /\ Running
    /\ state = "WAIT_STOP"
    /\ \E batch \in {<<>>, ScriptBurst} :
          \E done \in {manage_experiment(Mach, batch)} :
             /\ done.state = "START_MOTOR"
             /\ Becomes(done)
             /\ Leaves(done)
    /\ UNCHANGED <<noise, rest>>

\* Ctrl+C or an error in plot_final_results, line 151: STATE stays FINISHED
PlotCutShort ==
    /\ Running
    /\ state = "FINISHED"
    /\ \E batch \in {<<>>, ScriptBurst} :
          \E drained \in {process_serial_data(Mach, batch)} :
             Becomes(drained) /\ Leaves(drained)
    /\ UNCHANGED <<noise, rest>>

\* Ctrl+C during the sleep of line 177
Interrupt ==
    /\ Running
    /\ Leaves(Mach)
    /\ UNCHANGED <<state, d_index, results, current_run_time, current_run_vel,
                   start_time_current_run, last_angle, last_time,
                   is_first_point, commands, clock, shaft, noise, obs,
                   run_obs, trail,
                   rest>>

\* line 175: the loop condition fails
LoopEnds ==
    /\ pc = "loop"
    /\ state = "PLOT_CLOSED"
    /\ Leaves(Mach)
    /\ UNCHANGED <<state, d_index, results, current_run_time, current_run_vel,
                   start_time_current_run, last_angle, last_time,
                   is_first_point, commands, clock, shaft, noise, obs,
                   run_obs, trail,
                   rest>>

\* a finally block that closes the port without stopping the motor
Finally_NoZero ==
    /\ pc = "finally"
    /\ pc' = "closed"
    /\ UNCHANGED <<state, d_index, results, current_run_time, current_run_vel,
                   start_time_current_run, last_angle, last_time,
                   is_first_point, commands, clock, shaft, noise, obs,
                   run_obs, trail, exit_obs, rest>>

\* lines 178-181: send_d_to_arduino(0), then ser.close()
Finally ==
    /\ pc = "finally"
    /\ commands' = send_d_to_arduino(Mach, 0).commands
    /\ pc' = "closed"
    /\ UNCHANGED <<state, d_index, results, current_run_time, current_run_vel,
                   start_time_current_run, last_angle, last_time,
                   is_first_point, clock, shaft, noise, obs, run_obs, trail,
                   exit_obs, rest>>

Next ==
    \/ PollScript
    \/ PollEmpty
    \/ PollGlitch
    \/ DrainRaises
    \/ SettleCutShort
    \/ PlotCutShort
    \/ Interrupt
    \/ LoopEnds
    \/ Finally

Spec == Init /\ [][Next]_vars

\* The same loop with no operator interrupt and no transport failure, a
\* transport that keeps delivering (the polls with lines keep happening),
\* and the loop and its finally block running to their end.
LiveNext ==
    \/ PollScript
    \/ PollEmpty
    \/ PollGlitch
    \/ LoopEnds
    \/ Finally

LiveSpec ==
    /\ Init
    /\ [][LiveNext]_vars
    /\ WF_vars(PollScript)
    /\ WF_vars(LoopEnds)
    /\ WF_vars(Finally)

----------------------------------------------------------------------------
(* The loop with a transport that falls silent: polls find the scripted    *)
(* bursts or a line off the script until, at any poll, no line is waiting, *)
(* and from then on none ever is.  No operator interrupt.                  *)

BurstPoll == quiet.n = 0 /\ PollScript

GlitchPoll == quiet.n = 0 /\ PollGlitch

\* legacy/1-2.py lines 175-177 with ser.in_waiting = 0
QuietPoll ==
    /\ quiet.n < MaxQuiet
    /\ Poll(<<>>)
    /\ quiet' = [n |-> quiet.n + 1,
                 at |-> IF quiet.n = 0
                        THEN [state |-> state, commands |-> commands,
                              results |-> results,
                              stopped |-> check_stopped(current_run_vel)]
                        ELSE quiet.at]
    /\ UNCHANGED <<noise, det, plotter, plotter_pid, fed, sweep, met, disk,
                   loaded>>

StallNext ==
    \/ BurstPoll
    \/ GlitchPoll
    \/ QuietPoll

StallSpec == Init /\ [][StallNext]_vars

----------------------------------------------------------------------------
(* Claims on the experiment state machine *)

Range(s) == {s[i] : i \in 1..Len(s)}

FirstDuties(n) == {D_VALUES[i] : i \in 1..n}

\* the commands of n completed runs: d1, 0, d2, 0, ...
RECURSIVE RunCommands(_)
RunCommands(n) ==
    IF n = 0 THEN <<>> ELSE RunCommands(n - 1) \o <<D_VALUES[n], 0>>

\* C1: with a transport that in every run delivers samples that satisfy
\* check_steady_state and then check_stopped, the machine eventually is in
\* FINISHED with one entry of results per duty value, the last command
\* written being the zero command.
C1_ReachesFinished ==
    <>( /\ state = "FINISHED"
        /\ DOMAIN results = Range(D_VALUES)
        /\ Cardinality(DOMAIN results) = Len(D_VALUES)
        /\ Last(commands) = 0 )

C1_Witness ==
    /\ state = "FINISHED"
    /\ pc = "loop"
    /\ Cardinality(DOMAIN results) = Len(D_VALUES)
    /\ noise = MaxGlitch

\* C2: the keys of results are exactly the first d_index duty values, and a
\* step changes results only by adding the entry of the current duty, in
\* WAIT_STOP with check_stopped true on the drained buffer, advancing
\* d_index by one in the same step.
C2_ResultsFollowIndex ==
    /\ [](DOMAIN results = FirstDuties(d_index))
    /\ [][ results' # results =>
             /\ state = "WAIT_STOP"
             /\ check_stopped(current_run_vel')
             /\ d_index' = d_index + 1
             /\ D_VALUES[d_index + 1] \notin DOMAIN results
             /\ DOMAIN results' = DOMAIN results \cup {D_VALUES[d_index + 1]}
             /\ \A k \in DOMAIN results : results'[k] = results[k]
             /\ results'[D_VALUES[d_index + 1]] =
                  [time |-> current_run_time', velocity |-> current_run_vel']
         ]_vars

C2_Witness ==
    /\ state = "WAIT_STOP"
    /\ d_index = 2
    /\ DOMAIN results = {150, 175}
    /\ Len(results[175].velocity) > Len(results[150].velocity)

\* C3: the commands written are an initial zero, then per duty value in
\* list order the value (on START_MOTOR) and a zero (when check_steady_state
\* holds in WAIT_STEADY), then the zero of the exit; every nonzero command
\* is followed by a zero before the next nonzero command.
C3_CommandOrder ==
    /\ commands =
         <<0>> \o RunCommands(d_index)
               \o (CASE state = "WAIT_STEADY" -> <<D_VALUES[d_index + 1]>>
                     [] state = "WAIT_STOP" -> <<D_VALUES[d_index + 1], 0>>
                     [] OTHER -> <<>>)
               \o (IF pc = "closed" THEN <<0>> ELSE <<>>)
    /\ \A i \in 1..Len(commands) :
          commands[i] # 0 =>
             \/ i = Len(commands) /\ pc # "closed"
             \/ i < Len(commands) /\ commands[i + 1] = 0

C3_Witness ==
    /\ pc = "closed"
    /\ state = "PLOT_CLOSED"
    /\ commands = <<0, 150, 0, 175, 0, 200, 0, 225, 0, 250, 0, 0>>

\* C4: however the loop is left, exactly one command is written after the
\* last poll and before the port is closed, it is the zero command, and
\* results is what it was when the loop was left.
C4_ExitWritesZero ==
    /\ pc = "loop" => ~exit_obs.left
    /\ pc = "finally" =>
         /\ exit_obs.left
         /\ commands = SubSeq(commands, 1, exit_obs.n_cmds)
         /\ results = exit_obs.results
    /\ pc = "closed" =>
         /\ exit_obs.left
         /\ Len(commands) = exit_obs.n_cmds + 1
         /\ Last(commands) = 0
         /\ results = exit_obs.results

C4_Witness ==
    /\ pc = "closed"
    /\ state = "WAIT_STEADY"
    /\ d_index = 2
    /\ Last(SubSeq(commands, 1, exit_obs.n_cmds)) = 200
    /\ DOMAIN results = {150, 175}

\* C23: once results[d] is stored, its time series and its velocity series
\* are the same in every later state.
C23_SealedRunsFrozen ==
    [][ \A d \in DOMAIN results :
           /\ d \in DOMAIN results'
           /\ results'[d].time = results[d].time
           /\ results'[d].velocity = results[d].velocity ]_vars

C23_Witness ==
    /\ state = "WAIT_STEADY"
    /\ d_index = 1
    /\ D_VALUES[1] \in DOMAIN results
    /\ Len(results[D_VALUES[1]].velocity) >= STOP_POINTS
    /\ Len(current_run_vel) >= STEADY_STATE_POINTS

\* the position in commands of the duty of the k-th run: a line drained
\* at a moment below it was read before that command was written
DutyAt(k) == 2 * k

\* C24: every velocity of a sealed run was computed from two angle samples
\* drained after the duty command of that run was written and before the
\* run was sealed, and so is every velocity of the run in progress; the
\* poll that starts a run leaves empty buffers and a first-point estimator
\* whatever it drained.
C24_SamplesOfOwnRun ==
    /\ [](/\ DOMAIN trail.sealed_from = DOMAIN results
          /\ \A k \in 1..Len(D_VALUES) :
                D_VALUES[k] \in DOMAIN results =>
                   LET from == trail.sealed_from[D_VALUES[k]]
                   IN /\ Stamped(from) = Len(results[D_VALUES[k]].velocity)
                      /\ \A i \in 1..Len(from) :
                            /\ from[i].older >= DutyAt(k)
                            /\ from[i].newer >= from[i].older
                            /\ from[i].newer <= DutyAt(k) + 1
          /\ state \in {"WAIT_STEADY", "WAIT_STOP"} =>
                /\ Stamped(trail.run_from) = Len(current_run_vel)
                /\ \A i \in 1..Len(trail.run_from) :
                      trail.run_from[i].older >= DutyAt(d_index + 1))
    /\ [][ (state = "START_MOTOR" /\ state' = "WAIT_STEADY") =>
              /\ current_run_vel' = <<>>
              /\ current_run_time' = <<>>
              /\ is_first_point' ]_vars

C24_Witness ==
    /\ state = "WAIT_STEADY"
    /\ d_index = 2
    /\ current_run_vel = <<>>
    /\ trail.last_at = DutyAt(3) - 1
    /\ obs.kind = "angle"
    /\ \E i \in 1..Len(trail.sealed_from[D_VALUES[2]]) :
          trail.sealed_from[D_VALUES[2]][i].newer = DutyAt(2) + 1

\* the machine stalled when the transport fell silent
StalledAt ==
    \/ quiet.at.state = "WAIT_STEADY"
    \/ quiet.at.state = "WAIT_STOP" /\ ~quiet.at.stopped

\* C26: when no line arrives any more while the machine is in WAIT_STEADY,
\* or in WAIT_STOP with check_stopped false, every later poll leaves it in
\* that state with the same commands and the same results.
C26_SilentTransportStalls ==
    (quiet.n > 0 /\ StalledAt) =>
        /\ state = quiet.at.state
        /\ state # "FINISHED"
        /\ commands = quiet.at.commands
        /\ results = quiet.at.results

C26_Witness ==
    /\ quiet.n = MaxQuiet
    /\ quiet.at.state = "WAIT_STOP"
    /\ ~quiet.at.stopped
    /\ state = "WAIT_STOP"
    /\ d_index = 1

\* the number of velocities of the run in progress whose samples were
\* both drained before the zero command of the run was written
BeforeZero ==
    Sum([i \in 1..Len(trail.run_from) |->
            IF trail.run_from[i].newer < DutyAt(d_index + 1) + 1
            THEN trail.run_from[i].n ELSE 0])

OneTransition ==
    { <<"IDLE", "START_MOTOR">>, <<"START_MOTOR", "WAIT_STEADY">>,
      <<"START_MOTOR", "FINISHED">>, <<"WAIT_STEADY", "WAIT_STOP">>,
      <<"WAIT_STOP", "START_MOTOR">>, <<"FINISHED", "PLOT_CLOSED">> }

\* C25: a poll takes at most one transition, and the detector of the state
\* it started in decides on the buffer as it is after the drain; IDLE to
\* START_MOTOR writes nothing, so the first duty is written by a later
\* poll; the poll that seals a run writes no command and stops in
\* START_MOTOR.
C25_OneTransitionPerPoll ==
    [][ pc = "loop" =>
          /\ state' # state => <<state, state'>> \in OneTransition
          /\ Len(commands') <= Len(commands) + 1
          /\ state = "IDLE" => commands' = commands
          /\ (state = "WAIT_STEADY" /\ pc' = "loop") =>
                (state' = "WAIT_STOP" <=> check_steady_state(current_run_vel'))
          /\ (state = "WAIT_STEADY" /\ state' = "WAIT_STOP") =>
                check_steady_state(current_run_vel')
          /\ (state = "WAIT_STOP" /\ pc' = "loop") =>
                (state' = "START_MOTOR" <=> check_stopped(current_run_vel'))
          /\ results' # results =>
                /\ commands' = commands
                /\ state' = "START_MOTOR"
                /\ results'[D_VALUES[d_index + 1]].velocity = current_run_vel'
      ]_vars

C25_Witness ==
    /\ state = "START_MOTOR"
    /\ d_index = 1
    /\ commands = <<0, D_VALUES[1], 0>>
    /\ results[D_VALUES[1]].velocity = current_run_vel

\* C30: d_index stays within 0..len(D_VALUES) and never decreases; it is
\* below len(D_VALUES) in WAIT_STEADY and WAIT_STOP, and FINISHED is entered
\* only with d_index = len(D_VALUES).
C30_IndexInRange ==
    /\ [](d_index \in 0..Len(D_VALUES))
    /\ [](state \in {"WAIT_STEADY", "WAIT_STOP"} => d_index < Len(D_VALUES))
    /\ [](state = "FINISHED" => d_index = Len(D_VALUES))
    /\ [][d_index' >= d_index]_vars

C30_Witness ==
    /\ state = "FINISHED"
    /\ d_index = Len(D_VALUES)
    /\ Len(commands) = 2 * Len(D_VALUES) + 1

----------------------------------------------------------------------------
(* The same script fed line by line with any readings: polls of one line   *)
(* with an angle of one turn and any clock advance, or an undecodable      *)
(* line, MaxLines lines in all, and polls that find no line.               *)

FreeAngles == {0, 2, 180, 182, 360}
FreeTicks == {-1, 0, 1, 2}

FreeItems ==
    { Item(AngleLine(a), t) : a \in FreeAngles, t \in FreeTicks }
        \cup { Item(Line("Angle", <<Junk>>), 0) }

PollLine ==
    /\ noise < MaxLines
    /\ \E it \in FreeItems : Poll(<<it>>)
    /\ noise' = noise + 1
    /\ UNCHANGED rest

FreeNext ==
    \/ PollLine
    \/ PollEmpty

FreeSpec == Init /\ [][FreeNext]_vars

----------------------------------------------------------------------------
(* The detectors on their own: the buffer is k1 copies of v1 followed by   *)
(* k2 copies of v2, and Evaluate calls both detectors on it.               *)

DetValues == {-11, -1, 0, 1, 10, 11, 24, 25}

Copies(k, v) == [i \in 1..k |-> v]

DetInit ==
    /\ \E k1 \in 0..MaxSeg, k2 \in 0..MaxSeg, v1 \in DetValues, v2 \in DetValues :
          /\ current_run_vel = Copies(k1, v1) \o Copies(k2, v2)
          /\ current_run_time = [i \in 1..(k1 + k2) |-> i]
          /\ det = [NoDet EXCEPT !.k1 = k1, !.v1 = v1, !.k2 = k2, !.v2 = v2]
    /\ state = "WAIT_STEADY"
    /\ d_index = 0
    /\ results = <<>>
    /\ start_time_current_run = 0
    /\ last_angle = 0
    /\ last_time = Len(current_run_vel)
    /\ is_first_point = FALSE
    /\ commands = <<0, D_VALUES[1]>>
    /\ pc = "loop"
    /\ clock = Len(current_run_vel)
    /\ shaft = 0
    /\ noise = 0
    /\ obs = NoObs
    /\ run_obs = <<>>
    /\ exit_obs = NoExit
    /\ trail = NoTrail
    /\ quiet = NoQuiet
    /\ disk = NoDisk
    /\ loaded = NoLoad
    /\ plotter = PlotterInit
    /\ plotter_pid = PlotterPidInit
    /\ fed = NoFed
    /\ sweep = NoSweep
    /\ met = NoMet

Evaluate ==
    /\ ~det.done
    /\ det' = [det EXCEPT !.done = TRUE,
                          !.steady = check_steady_state(current_run_vel),
                          !.stopped = check_stopped(current_run_vel)]
    /\ UNCHANGED <<state, d_index, results, current_run_time, current_run_vel,
                   start_time_current_run, last_angle, last_time,
                   is_first_point, commands, pc, clock, shaft, noise, obs,
                   run_obs, trail, exit_obs, plotter, plotter_pid, fed,
                   sweep, met, quiet, disk, loaded>>

DetNext == Evaluate

DetSpec == DetInit /\ [][DetNext]_vars

----------------------------------------------------------------------------
(* Claims on the detectors *)

\* the last n elements of s exist and are all equal
LastIdentical(s, n) ==
    /\ Len(s) >= n
    /\ \A i \in (Len(s) - n + 1)..Len(s) : s[i] = s[Len(s)]

Min(a, b) == IF a < b THEN a ELSE b

\* the sum of the absolute values of the last n elements of
\* Copies(det.k1, det.v1) \o Copies(det.k2, det.v2), when there are n
TwoSegAbsSum(n) ==
    Min(det.k2, n) * Abs(det.v2) + (n - Min(det.k2, n)) * Abs(det.v1)

\* C5: check_steady_state is false whenever the run holds fewer than 25
\* samples, and true whenever its last 25 samples are identical.
C5_SteadyWindow ==
    det.done =>
        /\ Len(current_run_vel) < 25 => ~det.steady
        /\ LastIdentical(current_run_vel, 25) => det.steady

C5_Witness ==
    /\ det.done
    /\ Len(current_run_vel) = 25
    /\ LastIdentical(current_run_vel, 25)
    /\ current_run_vel[1] = 25
    /\ det.steady

\* C6: with fewer than 25 samples check_stopped is true iff the buffer is
\* not empty and its last sample is below the threshold in absolute value;
\* with 25 samples or more it is true iff the mean absolute value of the
\* last 25 is below the threshold.
C6_StoppedWindow ==
    det.done =>
        det.stopped =
            IF Len(current_run_vel) < 25
            THEN /\ current_run_vel # <<>>
                 /\ -STOP_THRESHOLD < current_run_vel[Len(current_run_vel)]
                 /\ current_run_vel[Len(current_run_vel)] < STOP_THRESHOLD
            ELSE TwoSegAbsSum(25) < 25 * STOP_THRESHOLD

C6_Witness ==
    /\ det.done
    /\ det.stopped
    /\ Len(current_run_vel) = 26
    /\ current_run_vel[2] = -1
    /\ current_run_vel[26] = 0

----------------------------------------------------------------------------
(* Claims on the velocity estimator *)

\* C7: of the Angle samples read after the reset of START_MOTOR, the first
\* appends no velocity sample and the second appends exactly one when its
\* dt is greater than 0 (and none otherwise).
C7_FirstSampleSilent ==
    state = "WAIT_STEADY" =>
        /\ Len(run_obs) <= 1 =>
              current_run_vel = <<>> /\ current_run_time = <<>>
        /\ Len(run_obs) = 2 =>
              /\ Len(current_run_vel) =
                    IF run_obs[2].time - run_obs[1].time > 0 THEN 1 ELSE 0
              /\ Len(current_run_time) = Len(current_run_vel)

C7_Witness ==
    /\ state = "WAIT_STEADY"
    /\ Len(run_obs) = 2
    /\ run_obs[1].time = 2
    /\ Len(current_run_vel) = 1
    /\ last_time > run_obs[1].time

\* C8: for consecutive angle samples whose raw difference is greater than
\* 180 in magnitude, the delta the velocity is computed from lies in
\* [-180, 180].
C8_UnwrapRange ==
    (obs.kind = "angle" /\ ~obs.first /\ Abs(obs.raw) > 180) =>
        /\ -180 <= obs.delta /\ obs.delta <= 180
        /\ (obs.appended = 1 /\ current_run_vel # <<>>) =>
              Abs(Last(current_run_vel)) * obs.dt <= 180

C8_Witness ==
    /\ obs.kind = "angle"
    /\ ~obs.first
    /\ obs.raw = -182
    /\ obs.dt = 2
    /\ current_run_vel # <<>>
    /\ Last(current_run_vel) = 89

\* C9: an Angle sample whose dt to the stored sample is zero or negative
\* appends no velocity sample, and last_angle and last_time become the new
\* sample's values.
C9_BadDtStillStored ==
    [][ ( /\ noise' = noise + 1
          /\ obs'.kind = "angle"
          /\ ~is_first_point
          /\ obs'.time - last_time <= 0 )
        =>
        ( /\ \/ /\ current_run_vel' = current_run_vel
                /\ current_run_time' = current_run_time
             \/ /\ state = "START_MOTOR"
                /\ current_run_vel' = <<>>
                /\ current_run_time' = <<>>
          /\ last_angle' = obs'.angle
          /\ last_time' = obs'.time )
      ]_vars

C9_Witness ==
    /\ state = "WAIT_STEADY"
    /\ obs.kind = "angle"
    /\ ~obs.first
    /\ obs.dt < 0
    /\ Len(current_run_vel) = 1
    /\ last_angle = obs.angle
    /\ last_angle # run_obs[2].angle


----------------------------------------------------------------------------
(* The three readers fed any lines: the main loop of legacy/1-2.py and the *)
(* animation callbacks of the two plotters each read batches of telemetry  *)
(* lines, well-formed or not, MaxDecLines lines in all.                    *)

F(v) == Tok("float", v)
I(v) == Tok("int", v)

DecLines ==
    { AngleLine(90),                                \* "Angle:90.0"
      Line("Angle", <<Junk>>),                      \* "Angle:abc"
      Line("Angle", <<>>),                          \* "Angle:"
      Line("Data", <<I(1), F(2), F(3)>>),           \* "Data:1,2.0,3.0"
      Line("Data", <<I(1), F(2), Junk>>),           \* "Data:1,2.0,x"
      Line("Data", <<F(1), F(2), F(3)>>),           \* "Data:1.0,2.0,3.0"
      Line("Data", <<F(1), F(2), F(3), F(4), F(5)>>),
      Line("Data", <<F(1), F(2), F(3), F(4), Junk>>),
      Line("Tau", <<I(1), F(2), F(3)>>),
      Line("Tau", <<I(1), Junk, F(3)>>),
      Line("K", <<I(1), F(2), F(3), F(4)>>),
      Line("K", <<I(1), F(2), F(3)>>),
      Line("TASK", <<Junk>>) }                      \* "TASK:1-2"

DecBatches(n) == UNION { [1..k -> DecLines] : k \in 1..n }

ItemsOf(batch) == [i \in 1..Len(batch) |-> Item(batch[i], 1)]

Feeds(reader, batch) ==
    fed' = [reader |-> reader, batch |-> batch, n |-> fed.n + Len(batch)]

\* legacy/1-2.py lines 175-177 with the lines of batch waiting
ReadLegacy ==
    /\ fed.n < MaxDecLines
    /\ \E batch \in DecBatches(MaxDecLines - fed.n) :
          /\ Poll(ItemsOf(batch))
          /\ Feeds("legacy", batch)
    /\ UNCHANGED <<noise, det, plotter, plotter_pid, sweep, met, quiet, disk,
                   loaded>>

\* src/plotter.py line 327: FuncAnimation calls update_plot
AnimatePlotter ==
    /\ fed.n < MaxDecLines
    /\ ~plotter.escaped
    /\ \E batch \in DecBatches(MaxDecLines - fed.n) :
          /\ \E after \in {update_plot(plotter, batch)} : plotter' = after
          /\ Feeds("plotter", batch)
    /\ UNCHANGED <<state, d_index, results, current_run_time, current_run_vel,
                   start_time_current_run, last_angle, last_time,
                   is_first_point, commands, pc, clock, shaft, noise, obs,
                   run_obs, trail, exit_obs, det, plotter_pid, sweep, met,
                   quiet, disk, loaded>>

\* src/plotter_pid.py line 312: FuncAnimation calls update_plot
AnimatePlotterPid ==
    /\ fed.n < MaxDecLines
    /\ ~plotter_pid.escaped
    /\ \E batch \in DecBatches(MaxDecLines - fed.n) :
          /\ \E after \in {update_plot_pid(plotter_pid, batch)} :
                plotter_pid' = after
          /\ Feeds("plotter_pid", batch)
    /\ UNCHANGED <<state, d_index, results, current_run_time, current_run_vel,
                   start_time_current_run, last_angle, last_time,
                   is_first_point, commands, pc, clock, shaft, noise, obs,
                   run_obs, trail, exit_obs, det, plotter, sweep, met, quiet,
                   disk, loaded>>

DecodeNext ==
    \/ ReadLegacy
    \/ AnimatePlotter
    \/ AnimatePlotterPid
    \/ PollEmpty

DecodeSpec == Init /\ [][DecodeNext]_vars

----------------------------------------------------------------------------
(* Claim on the decoding errors *)

Numeric(tok) == tok.k \in {"int", "float"}
Whole(tok) == tok.k = "int"

\* the line carries a tag the reader decodes, and a non-numeric field, no
\* field, or the wrong number of fields for that tag
FailsToDecode(reader, line) ==
    LET n == Len(line.fields)
        numbers == \A i \in 1..n : Numeric(line.fields[i])
    IN CASE reader = "legacy" ->
              line.tag = "Angle" /\ ~(n = 1 /\ numbers)
         [] reader = "plotter" ->
              \/ /\ line.tag \in {"Data", "Tau"}
                 /\ ~(n = 3 /\ numbers /\ Whole(line.fields[1]))
              \/ /\ line.tag = "K"
                 /\ ~(n = 4 /\ numbers /\ Whole(line.fields[1]))
         [] reader = "plotter_pid" ->
              line.tag = "Data" /\ ~(n = 5 /\ numbers)
         [] OTHER -> FALSE

\* batch without the lines that fail to decode
RECURSIVE Decodable(_, _)
Decodable(reader, batch) ==
    IF batch = <<>> THEN <<>>
    ELSE (IF FailsToDecode(reader, Head(batch))
          THEN <<>> ELSE <<Head(batch)>>) \o Decodable(reader, Tail(batch))

Estimator(m) ==
    <<m.last_angle, m.last_time, m.is_first_point,
      m.current_run_time, m.current_run_vel>>

Buffers(p) ==
    <<p.time_data, p.velocity_data, p.duty_data, p.tau_labels, p.K_labels>>

BuffersPid(p) ==
    <<p.time_data, p.position_data, p.reference_data, p.error_data,
      p.control_data>>

\* C10: a telemetry line that fails to decode never raises out of its
\* reader and changes no state: after a read, the estimator state and run
\* buffers of process_serial_data, and every data buffer of either plotter,
\* are what the read of the same lines without the failing ones leaves
\* (unchanged when every line fails), so the following lines are processed.
C10_DecodeErrorsSwallowed ==
    [][ fed'.n > fed.n =>
        LET reader == fed'.reader
            kept == Decodable(reader, fed'.batch)
        IN /\ reader = "legacy" =>
                /\ obs'.kind # "escaped"
                /\ pc' = "loop"
                /\ <<last_angle', last_time', is_first_point',
                     current_run_time', current_run_vel'>>
                      = Estimator(manage_experiment(Mach, ItemsOf(kept)))
                /\ (kept = <<>> /\ state # "START_MOTOR") =>
                      <<last_angle', last_time', is_first_point',
                        current_run_time', current_run_vel'>>
                         = Estimator(Mach)
           /\ reader = "plotter" =>
                /\ ~plotter'.escaped
                /\ Buffers(plotter') = Buffers(update_plot(plotter, kept))
                /\ kept = <<>> => Buffers(plotter') = Buffers(plotter)
           /\ reader = "plotter_pid" =>
                /\ ~plotter_pid'.escaped
                /\ BuffersPid(plotter_pid')
                      = BuffersPid(update_plot_pid(plotter_pid, kept))
                /\ kept = <<>> =>
                      BuffersPid(plotter_pid') = BuffersPid(plotter_pid)
      ]_vars

C10_Witness ==
    /\ fed.reader = "plotter"
    /\ Len(fed.batch) = 2
    /\ FailsToDecode("plotter", fed.batch[1])
    /\ fed.batch[1].tag = "Data"
    /\ Len(fed.batch[1].fields) = 3
    /\ fed.batch[2] = Line("Data", <<I(1), F(2), F(3)>>)
    /\ plotter.time_data = <<2>>
    /\ plotter.velocity_data = <<3>>
    /\ plotter.duty_data = <<10>>

----------------------------------------------------------------------------
(* The live plotters at work: the animation reads one line at a time,      *)
(* MaxPlotLines lines in all, the operator presses 'c' or 'p' at any       *)
(* moment, and load_latest_summary is called once on what is on disk,      *)
(* which may hold a summary file that the plotter did not write.           *)

PlotLines ==
    { Line("TASK", <<Junk>>),                           \* "TASK:1-3"
      Line("Data", <<I(1), F(2), F(3)>>),
      Line("Tau", <<I(1), F(2), F(3)>>),
      Line("K", <<I(1), F(2), F(3), F(4)>>),
      Line("Data", <<F(1), F(2), F(3), F(4), F(5)>>) }

PlotFrame ==
    UNCHANGED <<state, d_index, results, current_run_time, current_run_vel,
                start_time_current_run, last_angle, last_time,
                is_first_point, commands, pc, clock, shaft, noise, obs,
                run_obs, trail, exit_obs, det, sweep, met, quiet>>

\* src/plotter.py line 327: FuncAnimation calls update_plot
WatchPlotter ==
    /\ fed.n < MaxPlotLines
    /\ \E line \in PlotLines :
          /\ \E after \in {update_plot(plotter, <<line>>)} : plotter' = after
          /\ Feeds("plotter", <<line>>)
    /\ UNCHANGED <<plotter_pid, disk, loaded>>
    /\ PlotFrame

\* src/plotter_pid.py line 312: FuncAnimation calls update_plot
WatchPlotterPid ==
    /\ fed.n < MaxPlotLines
    /\ \E line \in PlotLines :
          /\ \E after \in {update_plot_pid(plotter_pid, <<line>>)} :
                plotter_pid' = after
          /\ Feeds("plotter_pid", <<line>>)
    /\ UNCHANGED <<plotter, disk, loaded>>
    /\ PlotFrame

\* src/plotter.py line 223: a key_press_event
KeyPlotter ==
    /\ \E key \in {"c", "p"} :
          \E out \in {on_key(plotter, disk, key)} :
             plotter' = out.p /\ disk' = out.d
    /\ UNCHANGED <<plotter_pid, fed, loaded>>
    /\ PlotFrame

\* src/plotter_pid.py line 234: a key_press_event
KeyPlotterPid ==
    /\ \E key \in {"c", "p"} :
          \E out \in {on_key_pid(plotter_pid, disk, key)} :
             plotter_pid' = out.p /\ disk' = out.d
    /\ UNCHANGED <<plotter, fed, loaded>>
    /\ PlotFrame

\* a summary_*.json that lacks a key, or holds both as numbers
OtherSummary ==
    /\ disk.summaries = <<>>
    /\ ~loaded.called
    /\ \E keys \in SUBSET {"tau_average", "K_average"} :
          disk' = [disk EXCEPT !.summaries =
                     Append(@, [keys |-> keys,
                                tau_average |-> IF "tau_average" \in keys
                                                THEN Rat(1, 2) ELSE None,
                                K_average |-> IF "K_average" \in keys
                                              THEN Rat(3, 1) ELSE None])]
    /\ UNCHANGED <<plotter, plotter_pid, fed, loaded>>
    /\ PlotFrame

\* src/data_loader.py line 310, or line 323 with the default verbose
LoadLatestSummary ==
    /\ ~loaded.called
    /\ \E verbose \in BOOLEAN :
          \E out \in {load_latest_summary(disk, verbose)} : loaded' = out
    /\ UNCHANGED <<plotter, plotter_pid, fed, disk>>
    /\ PlotFrame

PlotNext ==
    \/ WatchPlotter
    \/ WatchPlotterPid
    \/ KeyPlotter
    \/ KeyPlotterPid
    \/ OtherSummary
    \/ LoadLatestSummary

PlotSpec == Init /\ [][PlotNext]_vars

----------------------------------------------------------------------------
(* Claims on the key handler and the loader *)

\* both averages are there and are numbers
Usable(data) ==
    /\ "tau_average" \in data.keys /\ data.tau_average.some
    /\ "K_average" \in data.keys /\ data.K_average.some

\* C22: load_latest_summary raises ValueError whenever the latest summary
\* has no usable tau_average or K_average, a null written by
\* save_calculated_values included, and returns numeric tau and K otherwise.
C22_UnusableSummaryRaises ==
    (loaded.called /\ loaded.exc # "FileNotFoundError") =>
        IF Usable(loaded.data)
        THEN loaded.exc = "none" /\ loaded.tau.some /\ loaded.K.some
        ELSE loaded.exc = "ValueError"

\* C27: 'p' latches paused and runs the save sequence once, a later 'p'
\* saving nothing; a paused plotter reads the waiting lines and changes
\* neither a data buffer nor the task name.
C27_PauseLatches ==
    /\ [](Len(disk.plotter) = IF plotter.paused THEN 1 ELSE 0)
    /\ [](Len(disk.plotter_pid) = IF plotter_pid.paused THEN 1 ELSE 0)
    /\ [][ /\ plotter.paused =>
                /\ plotter'.paused
                /\ disk'.plotter = disk.plotter
           /\ plotter_pid.paused =>
                /\ plotter_pid'.paused
                /\ disk'.plotter_pid = disk.plotter_pid
           /\ (plotter.paused /\ fed' # fed /\ fed'.reader = "plotter") =>
                /\ Buffers(plotter') = Buffers(plotter)
                /\ plotter'.task_name = plotter.task_name
           /\ (plotter_pid.paused /\ fed' # fed
                 /\ fed'.reader = "plotter_pid") =>
                /\ BuffersPid(plotter_pid') = BuffersPid(plotter_pid)
                /\ plotter_pid'.task_name = plotter_pid.task_name
         ]_vars

C27_Witness ==
    /\ plotter.paused
    /\ disk.plotter = <<[plot |-> TRUE, raw |-> TRUE, calculated |-> FALSE]>>
    /\ fed.reader = "plotter"
    /\ fed.batch = <<Line("TASK", <<Junk>>)>>
    /\ ~plotter.task_name.seen
    /\ Len(plotter.time_data) = 1

----------------------------------------------------------------------------
(* A gain sweep against a device that streams telemetry: the value list is *)
(* the first 0..MaxValues values of the script's list, the device sends a  *)
(* step response of ten controller-loop records at a time, and up to       *)
(* MaxOdd other lines in a run.                                            *)

ValueList(script) == IF script = "kp" THEN KP_VALUES ELSE KD_VALUES

SweepInit ==
    /\ state = "IDLE"
    /\ d_index = 0
    /\ results = <<>>
    /\ current_run_time = <<>>
    /\ current_run_vel = <<>>
    /\ start_time_current_run = 0
    /\ last_angle = 0
    /\ last_time = 0
    /\ is_first_point = TRUE
    /\ commands = <<0>>
    /\ pc = "loop"
    /\ clock = 0
    /\ shaft = 0
    /\ noise = 0
    /\ obs = NoObs
    /\ run_obs = <<>>
    /\ exit_obs = NoExit
    /\ trail = NoTrail
    /\ quiet = NoQuiet
    /\ disk = NoDisk
    /\ loaded = NoLoad
    /\ det = NoDet
    /\ plotter = PlotterInit
    /\ plotter_pid = PlotterPidInit
    /\ fed = NoFed
    /\ met = NoMet
    /\ \E script \in {"kp", "kd"}, n \in 0..MaxValues :
          sweep = [NoSweep EXCEPT !.script = script,
                                  !.values = SubSeq(ValueList(script), 1, n),
                                  !.pc = "for"]

SweepFrame ==
    UNCHANGED <<state, d_index, results, current_run_time, current_run_vel,
                start_time_current_run, last_angle, last_time,
                is_first_point, commands, pc, clock, shaft, noise, obs,
                run_obs, trail, exit_obs, det, plotter, plotter_pid, fed,
                met, quiet, disk, loaded>>

\* the positions of a step response, one per record
StepShapes ==
    { <<0, 50, 100, 150, 190, 200, 200, 200, 200, 200>>,     \* settles
      <<0, 50, 100, 230, 210, 200, 200, 200, 200, 200>>,     \* overshoots
      <<0, 10, 20, 30, 40, 50, 60, 70, 80, 90>> }            \* too weak

\* "Data:Time,Position,Reference,Error,ControlSignal"
LoopRecord(k, y) ==
    Line("Data", <<F(10 * k), F(y), F(TARGET_POS), F(TARGET_POS - y), F(0)>>)

OddLines ==
    { Line("Data", <<I(150), F(5), F(30)>>),     \* "Data:Duty,Time,Velocity"
      Line("Data", <<F(7)>>),                    \* "Data:7.0"
      Line("Data", <<F(7), Junk>>),              \* "Data:7.0,x"
      Line("Data", <<Junk, F(7)>>),              \* "Data:x,7.0"
      Line("text", <<>>) }                       \* a status message

Sent(line) == [line |-> line, sent |-> sweep.clears]

SweepActive == sweep.pc \in {"for", "window", "settle"}

\* the device streams a step response into an empty input buffer
DeviceBurst ==
    /\ SweepActive
    /\ sweep.inbuf = <<>>
    /\ sweep.pc = "window" => sweep.seen = <<>>
    /\ \E shape \in StepShapes :
          sweep' = [sweep EXCEPT !.inbuf =
                        [k \in 1..Len(shape) |-> Sent(LoopRecord(k, shape[k]))]]
    /\ SweepFrame

\* the device sends a line of another kind
DeviceOdd ==
    /\ SweepActive
    /\ sweep.odd < MaxOdd
    /\ \E line \in OddLines :
          sweep' = [sweep EXCEPT !.inbuf = Append(@, Sent(line)),
                                 !.odd = @ + 1]
    /\ SweepFrame

\* the for statement takes the next value
StartValue ==
    /\ sweep.pc = "for"
    /\ sweep.i < Len(sweep.values)
    /\ \E after \in {BeginValue(sweep)} : sweep' = after
    /\ SweepFrame

\* the collection loop reads what waits
WindowRead ==
    /\ sweep.pc = "window"
    /\ sweep.inbuf # <<>>
    /\ \E after \in {Collect(sweep)} : sweep' = after
    /\ SweepFrame

\* TEST_DURATION has passed
WindowEnds ==
    /\ sweep.pc = "window"
    /\ \E after \in {EndWindow(sweep)} : sweep' = after
    /\ SweepFrame

\* the settle delay of line 116 has passed
SettleEnds ==
    /\ sweep.pc = "settle"
    /\ sweep' = [sweep EXCEPT !.pc = "for", !.i = @ + 1]
    /\ SweepFrame

\* the value list is exhausted
SweepEnds ==
    /\ sweep.pc = "for"
    /\ sweep.i = Len(sweep.values)
    /\ \E after \in {Finish(sweep)} : sweep' = after
    /\ SweepFrame

\* Ctrl+C during the test window or the settle delay: main has no handler
SweepInterrupt ==
    /\ sweep.pc \in {"window", "settle"}
    /\ sweep' = [sweep EXCEPT !.pc = "raised", !.exc = "KeyboardInterrupt"]
    /\ SweepFrame

SweepNext ==
    \/ DeviceBurst
    \/ DeviceOdd
    \/ StartValue
    \/ WindowRead
    \/ WindowEnds
    \/ SettleEnds
    \/ SweepEnds
    \/ SweepInterrupt

SweepSpec == SweepInit /\ [][SweepNext]_vars

----------------------------------------------------------------------------
(* Claims on the gain sweeps *)

\* the lines of batch that are Data lines of exactly five fields
FiveFieldData(batch) ==
    {k \in 1..Len(batch) :
        batch[k].tag = "Data" /\ Len(batch[k].fields) = 5}

\* C11: in the collection loop a Data line is recorded only when it carries
\* exactly the 5 fields of the controller-loop schema; a Data line of any
\* other field count adds no sample to the run.
C11_OnlyFiveFieldData ==
    sweep.pc = "window" =>
        /\ Len(sweep.t_data) <= Cardinality(FiveFieldData(sweep.seen))
        /\ Len(sweep.p_data) <= Cardinality(FiveFieldData(sweep.seen))

\* C29: after any sequence of lines in the collection loop the time list
\* and the position list of the run have the same length.
C29_ListsSameLength ==
    sweep.pc \in {"window", "settle", "for", "returned", "raised"} =>
        Len(sweep.t_data) = Len(sweep.p_data)

\* C12 as stated: a sweep over an empty value list performs zero transport
\* writes and produces zero run records.
C12_EmptyListNoWrites ==
    (sweep.pc = "returned" /\ sweep.values = <<>>) =>
        /\ sweep.commands = <<>>
        /\ sweep.results = <<>>

\* C12 amended: a sweep over an empty value list writes exactly one
\* command, the final stop S, and produces zero run records.
C12_EmptyListOnlyStops ==
    (sweep.pc = "returned" /\ sweep.values = <<>>) =>
        /\ Len(sweep.commands) = 1
        /\ sweep.commands[1].op = "S"
        /\ sweep.results = <<>>
        /\ sweep.plotted = <<>>

C12_Witness ==
    /\ sweep.pc = "returned"
    /\ sweep.values = <<>>
    /\ sweep.script = "kd"
    /\ Len(sweep.commands) = 1
    /\ sweep.inbuf # <<>>

\* C13: the sweep appends exactly one entry to results for every value
\* whose test window has ended, in list order, whatever telemetry arrived
\* in the window, and goes on to the next value.
C13_OneEntryPerValue ==
    /\ Len(sweep.results) = sweep.ended
    /\ \A k \in 1..Len(sweep.results) :
          sweep.results[k].gain = sweep.values[k]
    /\ sweep.exc # "TypeError"

\* C14: for every value the commands are written in the order S, Z, G:...,
\* R:<target>, R:0, with the input buffer cleared between G and R:<target>;
\* every recorded sample was sent after that clear; the next value's
\* commands follow R:0, and the only other command is the final S.
C14_CommandOrder ==
    LET n == Len(sweep.commands)
        order == <<"S", "Z", "G", "R", "R">>
    IN /\ \A k \in 1..n :
            LET pos == ((k - 1) % 5) + 1
                val == ((k - 1) \div 5) + 1
                cmd == sweep.commands[k]
            IN IF val > Len(sweep.values)
               THEN k = 5 * Len(sweep.values) + 1 /\ cmd.op = "S"
               ELSE /\ cmd.op = order[pos]
                    /\ pos = 3 => sweep.values[val] \in {cmd.a, cmd.c}
                    /\ pos = 4 => cmd.a = 200
                    /\ pos = 5 => cmd.a = 0
       /\ Len(sweep.cleared_at) = (n + 1) \div 5
       /\ \A k \in 1..Len(sweep.cleared_at) :
            sweep.cleared_at[k] = 5 * (k - 1) + 3
       /\ \A j \in 1..Len(sweep.read_sent) :
            sweep.read_sent[j] = Len(sweep.cleared_at)
       /\ sweep.pc = "window" => n = 5 * sweep.i + 4
       /\ sweep.pc = "settle" => n = 5 * sweep.i + 5

C14_Witness ==
    /\ sweep.pc = "returned"
    /\ Len(sweep.values) = 2
    /\ Len(sweep.results) = 2
    /\ Len(sweep.commands) = 11
    /\ Len(sweep.read_sent) = 10
    /\ sweep.odd = 1

\* C15: whenever the sweep has ended, by exhausting the list, by a stop
\* request or by an error, the last command written is the stop S and the
\* records of the values completed before are available to the caller.
C15_StopOnEveryExit ==
    sweep.pc \in {"returned", "raised"} =>
        /\ sweep.commands # <<>>
        /\ Last(sweep.commands).op = "S"
        /\ sweep.plotted = sweep.results


----------------------------------------------------------------------------
(* The metrics functions on their own: the series is three runs of         *)
(* constant position, 9..MaxSamples samples at 10 time units apart from    *)
(* time 0 or 10, and each function is applied to it with the target 200,   *)
(* 0 or -200: plotter_pid takes the reference from the last telemetry      *)
(* line, which can carry any number.                                       *)

SeriesValues == {0, 20, 180, 196, 200, 230}
Targets == {TARGET_POS, 0, -TARGET_POS}

MetInit ==
    /\ state = "IDLE"
    /\ d_index = 0
    /\ results = <<>>
    /\ current_run_time = <<>>
    /\ current_run_vel = <<>>
    /\ start_time_current_run = 0
    /\ last_angle = 0
    /\ last_time = 0
    /\ is_first_point = TRUE
    /\ commands = <<0>>
    /\ pc = "loop"
    /\ clock = 0
    /\ shaft = 0
    /\ noise = 0
    /\ obs = NoObs
    /\ run_obs = <<>>
    /\ exit_obs = NoExit
    /\ trail = NoTrail
    /\ quiet = NoQuiet
    /\ disk = NoDisk
    /\ loaded = NoLoad
    /\ det = NoDet
    /\ plotter = PlotterInit
    /\ plotter_pid = PlotterPidInit
    /\ fed = NoFed
    /\ sweep = NoSweep
    /\ \E n \in 9..MaxSamples, k1 \in 0..2, k3 \in 0..2, t0 \in {0, 10},
          v1 \in SeriesValues, v2 \in SeriesValues, v3 \in SeriesValues,
          target \in Targets :
          met = [NoMet EXCEPT
                   !.t = [i \in 1..n |-> t0 + 10 * (i - 1)],
                   !.y = Copies(k1, v1) \o Copies(n - k1 - k3, v2)
                            \o Copies(k3, v3),
                   !.target = target]

MetFrame ==
    UNCHANGED <<state, d_index, results, current_run_time, current_run_vel,
                start_time_current_run, last_angle, last_time,
                is_first_point, commands, pc, clock, shaft, noise, obs,
                run_obs, trail, exit_obs, det, plotter, plotter_pid, fed,
                sweep, quiet, disk, loaded>>

Returns(fn, out, short) ==
    met' = [met EXCEPT !.fn = fn, !.rt = out.rt, !.ov = out.ov,
                       !.st = out.st, !.sse = out.sse, !.short = short]

\* src/tune_kp.py line 100
CallCalculateMetrics ==
    /\ met.fn = "none"
    /\ \E out \in {calculate_metrics(met.t, met.y, met.target)} :
          Returns("calculate_metrics",
                  [rt |-> out.rt, ov |-> out.ov, st |-> None, sse |-> out.sse],
                  Len(met.y) < 10)
    /\ MetFrame

\* src/plotter_pid.py line 222
CallSavePerformanceMetrics ==
    /\ met.fn = "none"
    /\ \E out \in {save_performance_metrics(met.t, met.y, met.target)} :
          Returns("save_performance_metrics", out, Len(met.y) < 10)
    /\ MetFrame

\* src/p2-1_pid_simulation.py lines 206 and 344: the reference is 1.0 or 200
CallCalculatePerformance ==
    /\ met.fn = "none"
    /\ met.target > 0
    /\ \E out \in {calculate_performance(met.t, met.y, met.target)} :
          Returns("calculate_performance", out, FALSE)
    /\ MetFrame

MetNext ==
    \/ CallCalculateMetrics
    \/ CallSavePerformanceMetrics
    \/ CallCalculatePerformance

MetSpec == MetInit /\ [][MetNext]_vars

----------------------------------------------------------------------------
(* Claims on the metrics *)

\* the first sample at or above pct percent of the target; 0 when none is
Crossing(pct) ==
    LET at == {i \in 1..Len(met.y) : 100 * met.y[i] >= pct * met.target}
    IN IF at = {} THEN 0 ELSE CHOOSE i \in at : \A j \in at : i <= j

\* the samples farther than 2% of the target from the target
OutOfBand ==
    {i \in 1..Len(met.y) : 100 * Abs(met.y[i] - met.target) > 2 * met.target}

Computed(fns) == met.fn \in fns /\ ~met.short /\ met.target > 0

\* C16: the rise time of calculate_metrics and save_performance_metrics is
\* the time of the first sample at or above 90% of the target minus the
\* time of the first at or above 10%, and is None exactly when one of the
\* two thresholds is reached by no sample.
C16_RiseTime ==
    Computed({"calculate_metrics", "save_performance_metrics"}) =>
        IF Crossing(10) = 0 \/ Crossing(90) = 0
        THEN ~met.rt.some
        ELSE /\ met.rt.some
             /\ met.rt.num =
                  (met.t[Crossing(90)] - met.t[Crossing(10)]) * met.rt.den

\* C17: the overshoot of every metrics function is
\* max(0, max(y) - target) / target * 100, never negative.
C17_Overshoot ==
    Computed({"calculate_metrics", "save_performance_metrics",
              "calculate_performance"}) =>
        LET over == MaxOf(met.y) - met.target
            excess == IF over > 0 THEN over ELSE 0
        IN /\ met.ov.some
           /\ met.ov.num >= 0
           /\ met.ov.num * met.target = excess * 100 * met.ov.den

\* C18: save_performance_metrics reports the time of the sample that
\* follows the last sample out of the 2% band, the first sample included,
\* when that sample is not the final one.
C18_SettlingNextSample ==
    Computed({"save_performance_metrics"}) =>
        \A i \in OutOfBand :
            ((\A j \in OutOfBand : j <= i) /\ i < Len(met.y)) =>
                /\ met.st.some
                /\ met.st.num = met.t[i + 1] * met.st.den

\* C19: when the band is violated at the last sample or at no sample, the
\* reported settling time is the time of the last sample, not None.
C19_SettlingFullDuration ==
    ( /\ Computed({"save_performance_metrics", "calculate_performance"})
      /\ (OutOfBand = {} \/ Len(met.y) \in OutOfBand) ) =>
            /\ met.st.some
            /\ met.st.num = Last(met.t) * met.st.den

\* C20: the steady-state error of every metrics function is the target
\* minus the mean of the samples from index floor(0.9 n) to the end.
C20_SteadyStateMean ==
    Computed({"calculate_metrics", "save_performance_metrics",
              "calculate_performance"}) =>
        LET n == Len(met.y)
            from == (9 * n) \div 10
            total == Sum(SubSeq(met.y, from + 1, n))
        IN /\ met.sse.some
           /\ met.sse.num * (n - from) =
                 (met.target * (n - from) - total) * met.sse.den

\* C21: calculate_metrics and save_performance_metrics called with a target
\* of zero or below fail with an invalid-target error and return no metric
\* value.
C21_InvalidTargetRejected ==
    (met.fn \in {"calculate_metrics", "save_performance_metrics"}
       /\ met.target <= 0) =>
        /\ met.exc = "invalid target"
        /\ ~met.rt.some /\ ~met.ov.some /\ ~met.st.some /\ ~met.sse.some

====
